---------------------------- MODULE Spec2Model ----------------------------
(***************************************************************************)
(* Model of backend/services/language_service.py: the translation call,    *)
(* voice-driven demonstration driver, text normalization, transient-file   *)
(* audio playback and the background-thread decorator.                     *)
(*                                                                         *)
(* Each component has its own specification (SpecThread, SpecTranslate,    *)
(* SpecNormalize, SpecAudio, SpecDriver); the variables of the components  *)
(* a specification does not run stay at their idle values.                 *)
(*                                                                         *)
(* Python values are tagged records: PyStr(s), PyNone, PyInt, PyList(..),  *)
(* PyDict(..).  The text of a PyStr is a TLA+ string, except in the        *)
(* normalization component, where it is a sequence of code points so that  *)
(* the per-character Unicode tables can be applied.                        *)
(***************************************************************************)
EXTENDS Integers, Sequences, FiniteSets, TLC

VARIABLES
    \* ---- run_in_thread -------------------------------------------------
    callback,        \* the decorator's callback argument: None or "cb"
    func,            \* the wrapped function: argument -> value, Raises or Hangs
    wpc,             \* wrapper position per invocation: idle / spawned / returned
    wret,            \* what the wrapper returned to its caller
    targs,           \* the arguments captured by the thread's closure
    tpc,             \* thread position: none / start / called / done / raised
    result,          \* thread_target's local `result`
    cbLog,           \* calls received by the callback: [thread, value] records
    \* ---- translate_text ------------------------------------------------
    API_KEY,         \* the module-level credential ("" when not configured)
    jsonErrorIsRequestException,
                     \* whether the installed requests raises, from
                     \* response.json(), a subclass of RequestException
                     \* (requests >= 2.27) or a plain ValueError (older)
    trPc,            \* idle / request / done
    params,          \* the form fields of the request in flight
    trRequests,      \* requests.post calls made by the current call
    response,        \* what the network gave back to the current call
    trResult,        \* what translate_text returned
    trRaised,        \* whether an exception left translate_text
    trCalls,         \* calls of translate_text made so far
    \* ---- normalize_text ------------------------------------------------
    text,            \* the input
    normalized,      \* normalize_text(text)
    normalizedTwice, \* normalize_text(normalize_text(text))
    variant,         \* an input differing from text in case and accents only
    normalizedVariant,
    \* ---- play_audio ----------------------------------------------------
    os_name,         \* os.name: "posix" or "nt"
    clock,           \* int(time.time())
    files,           \* the temp directory: file name -> the call that wrote it
    apc,             \* position of each play_audio call
    temp_filename,   \* each call's temp_filename (<<>> is None)
    played,          \* what the player of each call was given
    removed,         \* what each call's os.remove did
    printed,         \* the diagnostics each call printed
    \* ---- test_functionality --------------------------------------------
    dpc,             \* position of the driver
    captured,        \* what capture_user_voice returned
    user_text,
    target_language,
    translated_text,
    steps            \* the numbered steps the driver has announced

threadVars == <<callback, func, wpc, wret, targs, tpc, result, cbLog>>
transVars == <<API_KEY, jsonErrorIsRequestException, trPc, params, trRequests,
               response, trResult, trRaised, trCalls>>
normVars == <<text, normalized, normalizedTwice, variant, normalizedVariant>>
audioVars == <<os_name, clock, files, apc, temp_filename, played, removed, printed>>
driverVars == <<dpc, captured, user_text, target_language, translated_text, steps>>

vars == <<threadVars, transVars, normVars, audioVars, driverVars>>

\* Python values
None == "None"
PyNone == [t |-> "NoneType"]
PyInt == [t |-> "int"]
PyStr(s) == [t |-> "str", s |-> s]
PyList(items) == [t |-> "list", items |-> items]
PyDict(f) == [t |-> "dict", f |-> f]
Unset == [t |-> "unset"]

\* s.startswith(prefix) and `sub in s` on strings
StartsWith(s, prefix) ==
    Len(s) >= Len(prefix) /\ SubSeq(s, 1, Len(prefix)) = prefix
Contains(s, sub) ==
    \E i \in 1..(Len(s) - Len(sub) + 1) : SubSeq(s, i, i + Len(sub) - 1) = sub

--------------------------------------------------------------------------
(* run_in_thread                                                           *)

NumInvocations == 2

Invocations == 1..NumInvocations
Args == {"a1", "a2"}
Values == {"v1", "v2"}
Raises == "raises"
Hangs == "hangs"

notThread == <<transVars, normVars, audioVars, driverVars>>

\* wrapper(*args): threading.Thread(target=...).start()
WrapperCall(i, a) ==
    /\ wpc[i] = "idle"
    /\ wpc' = [wpc EXCEPT ![i] = "spawned"]
    /\ targs' = [targs EXCEPT ![i] = a]
    /\ tpc' = [tpc EXCEPT ![i] = "start"]
    /\ UNCHANGED <<callback, func, wret, result, cbLog, notThread>>

\* a wrapper that joins the thread before it returns
WrapperReturnAfterJoin(i) ==
    /\ wpc[i] = "spawned"
    /\ tpc[i] \in {"done", "raised"}
    /\ wpc' = [wpc EXCEPT ![i] = "returned"]
    /\ wret' = [wret EXCEPT ![i] = None]
    /\ UNCHANGED <<callback, func, targs, tpc, result, cbLog, notThread>>

\* wrapper: `return None`, right after start(), whatever the thread is doing
WrapperReturn(i) ==
    /\ wpc[i] = "spawned"
    /\ wpc' = [wpc EXCEPT ![i] = "returned"]
    /\ wret' = [wret EXCEPT ![i] = None]
    /\ UNCHANGED <<callback, func, targs, tpc, result, cbLog, notThread>>

\* the thread runs func(*args): thread_target's first line, or partial(func, ...)
ThreadRunFunc(i) ==
    /\ tpc[i] = "start"
    /\ func[targs[i]] # Hangs
    /\ IF func[targs[i]] = Raises
       THEN /\ tpc' = [tpc EXCEPT ![i] = "raised"]
            /\ UNCHANGED result
       ELSE IF callback # None
       THEN /\ result' = [result EXCEPT ![i] = func[targs[i]]]
            /\ tpc' = [tpc EXCEPT ![i] = "called"]
       ELSE /\ tpc' = [tpc EXCEPT ![i] = "done"]
            /\ UNCHANGED result
    /\ UNCHANGED <<callback, func, wpc, wret, targs, cbLog, notThread>>

\* a thread_target that reports its result twice
ThreadCallbackTwice(i) ==
    /\ tpc[i] = "called"
    /\ cbLog' = cbLog \o << [thread |-> i, value |-> result[i]],
                            [thread |-> i, value |-> result[i]] >>
    /\ tpc' = [tpc EXCEPT ![i] = "done"]
    /\ UNCHANGED <<callback, func, wpc, wret, targs, result, notThread>>

\* thread_target: callback(result)
ThreadCallback(i) ==
    /\ tpc[i] = "called"
    /\ cbLog' = Append(cbLog, [thread |-> i, value |-> result[i]])
    /\ tpc' = [tpc EXCEPT ![i] = "done"]
    /\ UNCHANGED <<callback, func, wpc, wret, targs, result, notThread>>

ThreadNext ==
    \/ \E i \in Invocations, a \in Args : WrapperCall(i, a)
    \/ \E i \in Invocations : WrapperReturn(i)
    \/ \E i \in Invocations : ThreadRunFunc(i)
    \/ \E i \in Invocations : ThreadCallback(i)

\* the calls the callback received from invocation i's thread
CallbackCalls(i) == SelectSeq(cbLog, LAMBDA c : c.thread = i)

--------------------------------------------------------------------------
(* translate_text                                                          *)

MaxTranslateCalls == 2

ConfiguredKey == "86dd78dd-1b69-451c-a701-773312d7bfc8:fx"
TranslationErrorMarker == "[Translation Error: "
ErrorMarker == "[Error: "
KeyNotConfigured == "[Translation Error: API key not configured.]"
UnexpectedFormat == "[Translation Error: Unexpected API response format]"
SampleText == "Hello, how are you today?"

Texts == {SampleText, "Good morning"}
Languages == {"ES", "FR"}

\* the outcome of evaluating a Python expression or block
Return(v) == [k |-> "return", v |-> v]
Raise(cls, isReq, msg) ==
    [k |-> "raise", cls |-> cls, isRequestException |-> isReq, msg |-> msg]

EmptyDict == [x \in {} |-> PyNone]
Candidate(s) == PyDict([text |-> PyStr(s)])
Translations(v) == PyDict([translations |-> v])

\* What requests.post / raise_for_status / response.json() can give one call.
NetworkFailures ==
    { [kind |-> "post_raises", cls |-> "ConnectionError", msg |-> "Connection refused"],
      [kind |-> "post_raises", cls |-> "Timeout", msg |-> "Read timed out. (read timeout=10)"],
      [kind |-> "bad_status", cls |-> "HTTPError", msg |-> "403 Client Error: Forbidden for url"] }

JsonBodies ==
    { Translations(PyList(<<Candidate("Hola, como estas hoy?")>>)),
      Translations(PyList(<<Candidate("Hola"), Candidate("Buenos dias")>>)),
      Translations(PyList(<<PyDict([detected_source_language |-> PyStr("EN"),
                                    text |-> PyStr("Bonjour")])>>)),
      Translations(PyList(<<PyDict([text |-> PyNone])>>)),
      PyDict([message |-> PyStr("Quota exceeded")]),
      PyDict(EmptyDict),
      Translations(PyList(<<>>)),
      Translations(PyList(<<PyDict([detected_source_language |-> PyStr("EN")])>>)),
      Translations(PyList(<<PyStr("Hola")>>)),
      Translations(PyNone),
      Translations(PyInt),
      Translations(Candidate("Hola")),
      Translations(PyStr("Hola")),
      PyList(<<>>),
      PyList(<<PyStr("translations")>>),
      PyStr("no translations available"),
      PyStr("error"),
      PyInt,
      PyNone }

Responses ==
    NetworkFailures
        \cup { [kind |-> "not_json"] }
        \cup { [kind |-> "json", data |-> d] : d \in JsonBodies }

NoResponse == [kind |-> "none"]
NoParams == [auth_key |-> "", text |-> "", target_lang |-> ""]

\* `key in data`
PyContains(key, data) ==
    CASE data.t = "dict" -> Return(key \in DOMAIN data.f)
      [] data.t = "list" ->
            Return(\E i \in DOMAIN data.items :
                       data.items[i].t = "str" /\ data.items[i].s = key)
      [] data.t = "str" -> Return(Contains(data.s, key))
      [] OTHER ->
            Raise("TypeError", FALSE,
                  "argument of type '" \o data.t \o "' is not iterable")

\* data[key], key a string
PyGetItemStr(data, key) ==
    CASE data.t = "dict" ->
            IF key \in DOMAIN data.f
            THEN Return(data.f[key])
            ELSE Raise("KeyError", FALSE, "'" \o key \o "'")
      [] data.t = "list" ->
            Raise("TypeError", FALSE,
                  "list indices must be integers or slices, not str")
      [] data.t = "str" ->
            Raise("TypeError", FALSE, "string indices must be integers")
      [] OTHER ->
            Raise("TypeError", FALSE,
                  "'" \o data.t \o "' object is not subscriptable")

\* len(x)
PyLen(x) ==
    CASE x.t = "list" -> Return(Len(x.items))
      [] x.t = "str" -> Return(Len(x.s))
      [] x.t = "dict" -> Return(Cardinality(DOMAIN x.f))
      [] OTHER ->
            Raise("TypeError", FALSE,
                  "object of type '" \o x.t \o "' has no len()")

\* x[-1]
PyGetItemLast(x) ==
    CASE x.t = "list" ->
            IF Len(x.items) > 0
            THEN Return(x.items[Len(x.items)])
            ELSE Raise("IndexError", FALSE, "list index out of range")
      [] x.t = "str" ->
            IF Len(x.s) > 0
            THEN Return(PyStr(SubSeq(x.s, Len(x.s), Len(x.s))))
            ELSE Raise("IndexError", FALSE, "string index out of range")
      [] x.t = "dict" -> Raise("KeyError", FALSE, "-1")
      [] OTHER ->
            Raise("TypeError", FALSE,
                  "'" \o x.t \o "' object is not subscriptable")

\* x[0]
PyGetItem0(x) ==
    CASE x.t = "list" ->
            IF Len(x.items) > 0
            THEN Return(x.items[1])
            ELSE Raise("IndexError", FALSE, "list index out of range")
      [] x.t = "str" ->
            IF Len(x.s) > 0
            THEN Return(PyStr(SubSeq(x.s, 1, 1)))
            ELSE Raise("IndexError", FALSE, "string index out of range")
      [] x.t = "dict" -> Raise("KeyError", FALSE, "0")
      [] OTHER ->
            Raise("TypeError", FALSE,
                  "'" \o x.t \o "' object is not subscriptable")

\* response.json()
ResponseJson(resp) ==
    IF resp.kind = "not_json"
    THEN Raise("JSONDecodeError", jsonErrorIsRequestException,
               "Expecting value: line 1 column 1 (char 0)")
    ELSE Return(resp.data)

\* the try block: post, raise_for_status, json(), the shape test, the return
TryBody(resp) ==
    IF resp.kind \in {"post_raises", "bad_status"}
    THEN Raise(resp.cls, TRUE, resp.msg)
    ELSE
    LET j == ResponseJson(resp) IN
    IF j.k = "raise" THEN j ELSE
    LET data == j.v
        has == PyContains("translations", data) IN
    IF has.k = "raise" THEN has ELSE
    IF ~has.v THEN Return(PyStr(UnexpectedFormat)) ELSE
    LET tr == PyGetItemStr(data, "translations") IN
    IF tr.k = "raise" THEN tr ELSE
    LET n == PyLen(tr.v) IN
    IF n.k = "raise" THEN n ELSE
    IF ~(n.v > 0) THEN Return(PyStr(UnexpectedFormat)) ELSE
    LET first == PyGetItem0(tr.v) IN
    IF first.k = "raise" THEN first ELSE
    PyGetItemStr(first.v, "text")

\* handlers that lack the final `except Exception`
ExceptRequestExceptionOnly(o) ==
    IF o.k = "return" THEN o
    ELSE IF o.isRequestException
    THEN Return(PyStr("[Translation Error: " \o o.msg \o "]"))
    ELSE o

\* handlers that report a request failure without its detail
ExceptWithoutDetail(o) ==
    IF o.k = "return" THEN o
    ELSE IF o.isRequestException
    THEN Return(PyStr("[Translation Error: request failed]"))
    ELSE Return(PyStr("[Error: " \o o.msg \o "]"))

\* except requests.exceptions.RequestException / except Exception
ExceptHandlers(o) ==
    IF o.k = "return" THEN o
    ELSE IF o.isRequestException
    THEN Return(PyStr("[Translation Error: " \o o.msg \o "]"))
    ELSE Return(PyStr("[Error: " \o o.msg \o "]"))

notTrans == <<threadVars, normVars, audioVars, driverVars>>

\* translate_text up to the try: the credential test and the form fields
TranslateEnter(txt, lang) ==
    /\ trPc \in {"idle", "done"}
    /\ trCalls < MaxTranslateCalls
    /\ trCalls' = trCalls + 1
    /\ trRequests' = 0
    /\ response' = NoResponse
    /\ trRaised' = FALSE
    /\ IF API_KEY = ""
       THEN /\ trResult' = PyStr(KeyNotConfigured)
            /\ params' = NoParams
            /\ trPc' = "done"
       ELSE /\ trResult' = Unset
            /\ params' = [auth_key |-> API_KEY, text |-> txt, target_lang |-> lang]
            /\ trPc' = "request"
    /\ UNCHANGED <<API_KEY, jsonErrorIsRequestException>>

TranslateCall(txt, lang) ==
    /\ TranslateEnter(txt, lang)
    /\ UNCHANGED notTrans

\* the try statement: one requests.post, then the return or a handler
TranslateRequest(resp) ==
    /\ trPc = "request"
    /\ trRequests' = trRequests + 1
    /\ response' = resp
    /\ LET o == ExceptHandlers(TryBody(resp)) IN
         /\ trRaised' = (o.k = "raise")
         /\ trResult' = IF o.k = "return" THEN o.v ELSE Unset
    /\ trPc' = "done"
    /\ UNCHANGED <<API_KEY, jsonErrorIsRequestException, params, trCalls, notTrans>>

TransNext ==
    \/ \E txt \in Texts, lang \in Languages : TranslateCall(txt, lang)
    \/ \E resp \in Responses : TranslateRequest(resp)

--------------------------------------------------------------------------
(* normalize_text                                                          *)
(* Code points, by name: e_acute U+00E9, E_acute U+00C9, comb_acute U+0301 *)
(* (COMBINING ACUTE ACCENT), tm_sign U+2122 (TRADE MARK SIGN), bold_A      *)
(* U+1D400 and bold_a U+1D41A (MATHEMATICAL BOLD CAPITAL / SMALL A).       *)

MaxLen == 2

Alphabet ==
    { "a", "A", "e", "E", "e_acute", "E_acute", "comb_acute",
      "tm_sign", "T", "M", "t", "m", "bold_A", "bold_a" }

\* str.lower(), per code point (tm_sign and bold_A have no lowercase mapping)
StrLower(c) ==
    CASE c = "A" -> "a"
      [] c = "C" -> "c"
      [] c = "E" -> "e"
      [] c = "M" -> "m"
      [] c = "T" -> "t"
      [] c = "E_acute" -> "e_acute"
      [] OTHER -> c

\* unicodedata.normalize('NFKD', c), per code point
NFKD(c) ==
    CASE c = "e_acute" -> <<"e", "comb_acute">>
      [] c = "E_acute" -> <<"E", "comb_acute">>
      [] c = "tm_sign" -> <<"T", "M">>
      [] c = "bold_A" -> <<"A">>
      [] c = "bold_a" -> <<"a">>
      [] OTHER -> <<c>>

\* unicodedata.combining(c) != 0
Combining(c) == c = "comb_acute"

RECURSIVE LowerString(_)
LowerString(s) ==
    IF s = <<>> THEN <<>> ELSE <<StrLower(Head(s))>> \o LowerString(Tail(s))

RECURSIVE Decompose(_)
Decompose(s) ==
    IF s = <<>> THEN <<>> ELSE NFKD(Head(s)) \o Decompose(Tail(s))

StripCombining(s) == SelectSeq(s, LAMBDA c : ~Combining(c))

normalize_text(txt) ==
    IF txt = PyNone
    THEN PyNone
    ELSE PyStr(StripCombining(Decompose(LowerString(txt.s))))

BoundedStrings == UNION { [1..n -> Alphabet] : n \in 0..MaxLen }
Cafe == <<"C", "a", "f", "e_acute">>
Inputs == {PyNone} \cup { PyStr(s) : s \in BoundedStrings \cup {Cafe, <<"c", "a", "f", "e">>} }

\* The letter a code point stands for, without its case and its accent;
\* a diacritical mark stands for nothing.
BaseLetter(c) ==
    CASE c \in {"a", "A"} -> <<"a">>
      [] c \in {"c", "C"} -> <<"c">>
      [] c \in {"e", "E", "e_acute", "E_acute"} -> <<"e">>
      [] c \in {"m", "M"} -> <<"m">>
      [] c \in {"t", "T"} -> <<"t">>
      [] c \in {"bold_a", "bold_A"} -> <<"bold_a">>
      [] c = "comb_acute" -> <<>>
      [] OTHER -> <<c>>

RECURSIVE BaseLetters(_)
BaseLetters(s) ==
    IF s = <<>> THEN <<>> ELSE BaseLetter(Head(s)) \o BaseLetters(Tail(s))

DiffersOnlyInCaseAndAccents(s, u) == BaseLetters(s) = BaseLetters(u)

notNorm == <<threadVars, transVars, audioVars, driverVars>>

\* normalize_text(text)
Normalize ==
    /\ normalized = Unset
    /\ normalized' = normalize_text(text)
    /\ UNCHANGED <<text, normalizedTwice, variant, normalizedVariant, notNorm>>

\* normalize_text applied to its own output
NormalizeAgain ==
    /\ normalized # Unset
    /\ normalizedTwice = Unset
    /\ normalizedTwice' = normalize_text(normalized)
    /\ UNCHANGED <<text, normalized, variant, normalizedVariant, notNorm>>

\* normalize_text applied to a string that differs from text in letter case
\* and diacritical marks only
NormalizeVariant(v) ==
    /\ text # PyNone
    /\ variant = Unset
    /\ v # PyNone
    /\ DiffersOnlyInCaseAndAccents(text.s, v.s)
    /\ variant' = v
    /\ normalizedVariant' = normalize_text(v)
    /\ UNCHANGED <<text, normalized, normalizedTwice, notNorm>>

NormNext ==
    \/ Normalize
    \/ NormalizeAgain
    \/ \E v \in Inputs : NormalizeVariant(v)

--------------------------------------------------------------------------
(* play_audio                                                              *)
(* Two calls, as when play_audio is started twice through run_in_thread.   *)

MaxClock == 1

Calls == {"c1", "c2"}
Absent == "absent"

\* os.path.join(temp_dir, f"speech_{int(time.time())}.mp3"); <<>> is None
FileName(t) == <<"speech_", t, ".mp3">>
FileNames == { FileName(t) : t \in 0..MaxClock }

AudioTexts == {PyStr("Hola"), PyNone}

notAudio == <<threadVars, transVars, normVars, driverVars>>

\* what is at call p's path: nothing, the file p wrote, or another call's
Observed(p) ==
    IF files[temp_filename[p]] = Absent THEN "missing"
    ELSE IF files[temp_filename[p]] = p THEN "own"
    ELSE "other"

\* the debug print: text[:30] and len(text) raise TypeError unless text is
\* a sequence
DebugPrintRaises(txt) == txt.t \notin {"str", "list"}

\* play_audio up to the try: the debug print and temp_filename = None
PlayEnter(p, txt) ==
    /\ apc[p] = "idle"
    /\ apc' = [apc EXCEPT ![p] = IF DebugPrintRaises(txt) THEN "raised" ELSE "name"]
    /\ UNCHANGED <<os_name, clock, files, temp_filename, played, removed, printed>>

PlayStart(p, txt) ==
    /\ PlayEnter(p, txt)
    /\ UNCHANGED notAudio

\* temp_filename = os.path.join(temp_dir, f"speech_{int(time.time())}.mp3")
MakeName(p) ==
    /\ apc[p] = "name"
    /\ temp_filename' = [temp_filename EXCEPT ![p] = FileName(clock)]
    /\ apc' = [apc EXCEPT ![p] = "synth"]
    /\ UNCHANGED <<os_name, clock, files, played, removed, printed, notAudio>>

\* tts = gTTS(text=text, lang=language): it may raise (empty text, unknown
\* language)
Synthesize(p, ok) ==
    /\ apc[p] = "synth"
    /\ apc' = [apc EXCEPT ![p] = IF ok THEN "save" ELSE "except"]
    /\ UNCHANGED <<os_name, clock, files, temp_filename, played, removed, printed, notAudio>>

\* tts.save(temp_filename): open(path, "wb") creates or truncates the file,
\* then the audio is fetched and written.  It fails before the file is
\* opened ("unopened"), after ("partial"), or not at all ("saved").
Save(p, outcome) ==
    /\ apc[p] = "save"
    /\ files' = IF outcome = "unopened"
                THEN files
                ELSE [files EXCEPT ![temp_filename[p]] = p]
    /\ apc' = [apc EXCEPT ![p] = IF outcome = "saved" THEN "play" ELSE "except"]
    /\ UNCHANGED <<os_name, clock, temp_filename, played, removed, printed, notAudio>>

\* posix: os.system("mpg123 -q ..."), whose exit status is ignored.
\* nt: pygame's mixer; any exception (no pygame, no file, no device) is
\* printed and leads to the playsound fallback.
Play(p, ok) ==
    /\ apc[p] = "play"
    /\ IF os_name = "posix"
       THEN /\ played' = [played EXCEPT ![p] = IF ok THEN Observed(p) ELSE "failed"]
            /\ apc' = [apc EXCEPT ![p] = "finally"]
            /\ UNCHANGED printed
       ELSE IF ok /\ Observed(p) # "missing"
       THEN /\ played' = [played EXCEPT ![p] = Observed(p)]
            /\ apc' = [apc EXCEPT ![p] = "finally"]
            /\ UNCHANGED printed
       ELSE /\ printed' = [printed EXCEPT ![p] = @ \cup {"Pygame error"}]
            /\ apc' = [apc EXCEPT ![p] = "fallback"]
            /\ UNCHANGED played
    /\ UNCHANGED <<os_name, clock, files, temp_filename, removed, notAudio>>

\* nt: playsound.playsound(temp_filename, True); its exception is printed
PlaysoundFallback(p, ok) ==
    /\ apc[p] = "fallback"
    /\ IF ok /\ Observed(p) # "missing"
       THEN /\ played' = [played EXCEPT ![p] = Observed(p)]
            /\ UNCHANGED printed
       ELSE /\ played' = [played EXCEPT ![p] = "failed"]
            /\ printed' = [printed EXCEPT ![p] = @ \cup {"Audio playback error"}]
    /\ apc' = [apc EXCEPT ![p] = "finally"]
    /\ UNCHANGED <<os_name, clock, files, temp_filename, removed, notAudio>>

\* an except clause that returns, in a play_audio whose cleanup follows the
\* try body instead of standing in a finally clause
ExceptHandlerReturns(p) ==
    /\ apc[p] = "except"
    /\ printed' = [printed EXCEPT ![p] = @ \cup {"Error generating or playing audio"}]
    /\ apc' = [apc EXCEPT ![p] = "returned"]
    /\ UNCHANGED <<os_name, clock, files, temp_filename, played, removed, notAudio>>

\* except Exception as e: print(...), then the finally clause
ExceptHandler(p) ==
    /\ apc[p] = "except"
    /\ printed' = [printed EXCEPT ![p] = @ \cup {"Error generating or playing audio"}]
    /\ apc' = [apc EXCEPT ![p] = "finally"]
    /\ UNCHANGED <<os_name, clock, files, temp_filename, played, removed, notAudio>>

\* finally: if temp_filename and os.path.exists(temp_filename)
Finally(p) ==
    /\ apc[p] = "finally"
    /\ IF temp_filename[p] # <<>> /\ files[temp_filename[p]] # Absent
       THEN /\ apc' = [apc EXCEPT ![p] = "remove"]
            /\ UNCHANGED removed
       ELSE /\ apc' = [apc EXCEPT ![p] = "returned"]
            /\ removed' = [removed EXCEPT ![p] = "nofile"]
    /\ UNCHANGED <<os_name, clock, files, temp_filename, played, printed, notAudio>>

\* time.sleep(1.0); os.remove(temp_filename), its exception printed.  It
\* fails when the file is gone by now, and may fail when it is there (in
\* use, no permission).
RemoveFile(p, ok) ==
    /\ apc[p] = "remove"
    /\ IF ok /\ Observed(p) # "missing"
       THEN /\ removed' = [removed EXCEPT ![p] = Observed(p)]
            /\ files' = [files EXCEPT ![temp_filename[p]] = Absent]
            /\ UNCHANGED printed
       ELSE /\ removed' = [removed EXCEPT ![p] = "failed"]
            /\ printed' = [printed EXCEPT ![p] = @ \cup {"Error removing temp file"}]
            /\ UNCHANGED files
    /\ apc' = [apc EXCEPT ![p] = "returned"]
    /\ UNCHANGED <<os_name, clock, temp_filename, played, notAudio>>

\* a second passes
Tick ==
    /\ clock < MaxClock
    /\ clock' = clock + 1
    /\ UNCHANGED <<os_name, files, apc, temp_filename, played, removed, printed, notAudio>>

AudioSteps(p) ==
    \/ MakeName(p)
    \/ \E ok \in BOOLEAN : Synthesize(p, ok)
    \/ \E outcome \in {"saved", "unopened", "partial"} : Save(p, outcome)
    \/ \E ok \in BOOLEAN : Play(p, ok)
    \/ \E ok \in BOOLEAN : PlaysoundFallback(p, ok)
    \/ ExceptHandler(p)
    \/ Finally(p)
    \/ \E ok \in BOOLEAN : RemoveFile(p, ok)

AudioNext ==
    \/ \E p \in Calls, txt \in AudioTexts : PlayStart(p, txt)
    \/ \E p \in Calls : MakeName(p)
    \/ \E p \in Calls, ok \in BOOLEAN : Synthesize(p, ok)
    \/ \E p \in Calls, outcome \in {"saved", "unopened", "partial"} : Save(p, outcome)
    \/ \E p \in Calls, ok \in BOOLEAN : Play(p, ok)
    \/ \E p \in Calls, ok \in BOOLEAN : PlaysoundFallback(p, ok)
    \/ \E p \in Calls : ExceptHandler(p)
    \/ \E p \in Calls : Finally(p)
    \/ \E p \in Calls, ok \in BOOLEAN : RemoveFile(p, ok)
    \/ Tick

--------------------------------------------------------------------------
(* capture_user_voice and test_functionality                               *)

\* What the microphone and the recognizer can do to one capture_user_voice.
CaptureOutcomes ==
    { "microphone_unavailable",   \* sr.Microphone() raises: no input device
      "calibration_fails",        \* adjust_for_ambient_noise raises
      "no_speech",                \* listen raises WaitTimeoutError
      "not_understood",           \* recognize_google raises UnknownValueError
      "request_error",            \* recognize_google raises RequestError
      "recognized_empty",         \* recognize_google returns ""
      "recognized" }              \* recognize_google returns the text

\* capture_user_voice(): only WaitTimeoutError, UnknownValueError and
\* RequestError are caught; the `with sr.Microphone()` line and the
\* calibration stand outside every try
capture_user_voice(outcome) ==
    CASE outcome = "microphone_unavailable" ->
            Raise("OSError", FALSE, "No Default Input Device Available")
      [] outcome = "calibration_fails" ->
            Raise("OSError", FALSE, "Stream closed")
      [] outcome \in {"no_speech", "not_understood", "request_error"} ->
            Return(PyNone)
      [] outcome = "recognized_empty" -> Return(PyStr(""))
      [] OTHER -> Return(PyStr("Good morning"))

\* `not user_text`
Falsy(v) == v = PyNone \/ v = PyStr("")

\* input(...).strip().upper() or "ES", for the answers typed
TypedAnswers == {"", "fr", " es "}
TargetLanguage(typed) ==
    CASE typed = "fr" -> "FR"
      [] typed = " es " -> "ES"
      [] OTHER -> "ES"

\* step 1: capture_user_voice(), then the sample text when it gave nothing
DriverCapture(outcome) ==
    /\ dpc = "start"
    /\ steps' = Append(steps, 1)
    /\ LET o == capture_user_voice(outcome) IN
         IF o.k = "raise"
         THEN /\ dpc' = "crashed"
              /\ UNCHANGED <<captured, user_text>>
         ELSE /\ captured' = o.v
              /\ user_text' = IF Falsy(o.v) THEN PyStr(SampleText) ELSE o.v
              /\ dpc' = "translate"
    /\ UNCHANGED <<target_language, translated_text>>
    /\ UNCHANGED <<threadVars, transVars, normVars, audioVars>>

\* step 2: the prompt, then translate_text(user_text, target_language)
DriverTranslate(typed) ==
    /\ dpc = "translate"
    /\ steps' = Append(steps, 2)
    /\ target_language' = TargetLanguage(typed)
    /\ TranslateEnter(user_text.s, TargetLanguage(typed))
    /\ dpc' = "translating"
    /\ UNCHANGED <<captured, user_text, translated_text>>
    /\ UNCHANGED <<threadVars, normVars, audioVars>>

\* step 3: translate_text has returned; play_audio(translated_text, ...)
DriverPlay ==
    /\ dpc = "translating"
    /\ trPc = "done"
    /\ IF trRaised
       THEN /\ dpc' = "crashed"
            /\ UNCHANGED <<translated_text, steps, audioVars>>
       ELSE /\ translated_text' = trResult
            /\ steps' = Append(steps, 3)
            /\ PlayEnter("c1", trResult)
            /\ dpc' = "playing"
    /\ UNCHANGED <<captured, user_text, target_language>>
    /\ UNCHANGED <<threadVars, transVars, normVars>>

\* step 4: play_audio has returned or raised; normalize_text(translated_text),
\* whose text.lower() needs a string; then "All tests complete!"
DriverNormalize ==
    /\ dpc = "playing"
    /\ apc["c1"] \in {"returned", "raised"}
    /\ IF apc["c1"] = "raised"
       THEN /\ dpc' = "crashed"
            /\ UNCHANGED steps
       ELSE /\ steps' = Append(steps, 4)
            /\ dpc' = IF translated_text.t \in {"str", "NoneType"}
                      THEN "complete"
                      ELSE "crashed"
    /\ UNCHANGED <<captured, user_text, target_language, translated_text>>
    /\ UNCHANGED <<threadVars, transVars, normVars, audioVars>>

DriverNext ==
    \/ \E outcome \in CaptureOutcomes : DriverCapture(outcome)
    \/ \E typed \in TypedAnswers : DriverTranslate(typed)
    \/ \E resp \in Responses : TranslateRequest(resp)
    \/ DriverPlay
    \/ AudioSteps("c1")
    \/ DriverNormalize

--------------------------------------------------------------------------
(* Initial states and specifications.  Each initial predicate starts its   *)
(* own component and leaves the others idle.                               *)

\* run_in_thread(callback)(func): any callback or none; any function, which
\* for each argument returns a value, raises or never returns
InitThread ==
    /\ callback \in {None, "cb"}
    /\ func \in [Args -> Values \cup {Raises, Hangs}]
    /\ wpc = [i \in Invocations |-> "idle"]
    /\ wret = [i \in Invocations |-> "unset"]
    /\ targs = [i \in Invocations |-> None]
    /\ tpc = [i \in Invocations |-> "none"]
    /\ result = [i \in Invocations |-> "unset"]
    /\ cbLog = <<>>
    /\ API_KEY = ConfiguredKey
    /\ jsonErrorIsRequestException = TRUE
    /\ trPc = "idle"
    /\ params = NoParams
    /\ trRequests = 0
    /\ response = NoResponse
    /\ trResult = Unset
    /\ trRaised = FALSE
    /\ trCalls = 0
    /\ text = PyNone
    /\ normalized = Unset
    /\ normalizedTwice = Unset
    /\ variant = Unset
    /\ normalizedVariant = Unset
    /\ os_name = "posix"
    /\ clock = 0
    /\ files = [n \in FileNames |-> Absent]
    /\ apc = [p \in Calls |-> "idle"]
    /\ temp_filename = [p \in Calls |-> <<>>]
    /\ played = [p \in Calls |-> "none"]
    /\ removed = [p \in Calls |-> "none"]
    /\ printed = [p \in Calls |-> {}]
    /\ dpc = "idle"
    /\ captured = Unset
    /\ user_text = Unset
    /\ target_language = ""
    /\ translated_text = Unset
    /\ steps = <<>>

\* the module as shipped or with the credential left empty, under either
\* generation of requests
InitTranslate ==
    /\ callback = None
    /\ func = [a \in Args |-> "v1"]
    /\ wpc = [i \in Invocations |-> "idle"]
    /\ wret = [i \in Invocations |-> "unset"]
    /\ targs = [i \in Invocations |-> None]
    /\ tpc = [i \in Invocations |-> "none"]
    /\ result = [i \in Invocations |-> "unset"]
    /\ cbLog = <<>>
    /\ API_KEY \in {ConfiguredKey, ""}
    /\ jsonErrorIsRequestException \in BOOLEAN
    /\ trPc = "idle"
    /\ params = NoParams
    /\ trRequests = 0
    /\ response = NoResponse
    /\ trResult = Unset
    /\ trRaised = FALSE
    /\ trCalls = 0
    /\ text = PyNone
    /\ normalized = Unset
    /\ normalizedTwice = Unset
    /\ variant = Unset
    /\ normalizedVariant = Unset
    /\ os_name = "posix"
    /\ clock = 0
    /\ files = [n \in FileNames |-> Absent]
    /\ apc = [p \in Calls |-> "idle"]
    /\ temp_filename = [p \in Calls |-> <<>>]
    /\ played = [p \in Calls |-> "none"]
    /\ removed = [p \in Calls |-> "none"]
    /\ printed = [p \in Calls |-> {}]
    /\ dpc = "idle"
    /\ captured = Unset
    /\ user_text = Unset
    /\ target_language = ""
    /\ translated_text = Unset
    /\ steps = <<>>

\* any input of normalize_text: a string of at most MaxLen code points, the
\* two sample words, or None
InitNormalize ==
    /\ callback = None
    /\ func = [a \in Args |-> "v1"]
    /\ wpc = [i \in Invocations |-> "idle"]
    /\ wret = [i \in Invocations |-> "unset"]
    /\ targs = [i \in Invocations |-> None]
    /\ tpc = [i \in Invocations |-> "none"]
    /\ result = [i \in Invocations |-> "unset"]
    /\ cbLog = <<>>
    /\ API_KEY = ConfiguredKey
    /\ jsonErrorIsRequestException = TRUE
    /\ trPc = "idle"
    /\ params = NoParams
    /\ trRequests = 0
    /\ response = NoResponse
    /\ trResult = Unset
    /\ trRaised = FALSE
    /\ trCalls = 0
    /\ text \in Inputs
    /\ normalized = Unset
    /\ normalizedTwice = Unset
    /\ variant = Unset
    /\ normalizedVariant = Unset
    /\ os_name = "posix"
    /\ clock = 0
    /\ files = [n \in FileNames |-> Absent]
    /\ apc = [p \in Calls |-> "idle"]
    /\ temp_filename = [p \in Calls |-> <<>>]
    /\ played = [p \in Calls |-> "none"]
    /\ removed = [p \in Calls |-> "none"]
    /\ printed = [p \in Calls |-> {}]
    /\ dpc = "idle"
    /\ captured = Unset
    /\ user_text = Unset
    /\ target_language = ""
    /\ translated_text = Unset
    /\ steps = <<>>

\* no call of play_audio running, an empty temp directory, either platform
InitAudio ==
    /\ callback = None
    /\ func = [a \in Args |-> "v1"]
    /\ wpc = [i \in Invocations |-> "idle"]
    /\ wret = [i \in Invocations |-> "unset"]
    /\ targs = [i \in Invocations |-> None]
    /\ tpc = [i \in Invocations |-> "none"]
    /\ result = [i \in Invocations |-> "unset"]
    /\ cbLog = <<>>
    /\ API_KEY = ConfiguredKey
    /\ jsonErrorIsRequestException = TRUE
    /\ trPc = "idle"
    /\ params = NoParams
    /\ trRequests = 0
    /\ response = NoResponse
    /\ trResult = Unset
    /\ trRaised = FALSE
    /\ trCalls = 0
    /\ text = PyNone
    /\ normalized = Unset
    /\ normalizedTwice = Unset
    /\ variant = Unset
    /\ normalizedVariant = Unset
    /\ os_name \in {"posix", "nt"}
    /\ clock = 0
    /\ files = [n \in FileNames |-> Absent]
    /\ apc = [p \in Calls |-> "idle"]
    /\ temp_filename = [p \in Calls |-> <<>>]
    /\ played = [p \in Calls |-> "none"]
    /\ removed = [p \in Calls |-> "none"]
    /\ printed = [p \in Calls |-> {}]
    /\ dpc = "idle"
    /\ captured = Unset
    /\ user_text = Unset
    /\ target_language = ""
    /\ translated_text = Unset
    /\ steps = <<>>

\* python language_service.py: test_functionality about to start
InitDriver ==
    /\ callback = None
    /\ func = [a \in Args |-> "v1"]
    /\ wpc = [i \in Invocations |-> "idle"]
    /\ wret = [i \in Invocations |-> "unset"]
    /\ targs = [i \in Invocations |-> None]
    /\ tpc = [i \in Invocations |-> "none"]
    /\ result = [i \in Invocations |-> "unset"]
    /\ cbLog = <<>>
    /\ API_KEY \in {ConfiguredKey, ""}
    /\ jsonErrorIsRequestException \in BOOLEAN
    /\ trPc = "idle"
    /\ params = NoParams
    /\ trRequests = 0
    /\ response = NoResponse
    /\ trResult = Unset
    /\ trRaised = FALSE
    /\ trCalls = 0
    /\ text = PyNone
    /\ normalized = Unset
    /\ normalizedTwice = Unset
    /\ variant = Unset
    /\ normalizedVariant = Unset
    /\ os_name \in {"posix", "nt"}
    /\ clock = 0
    /\ files = [n \in FileNames |-> Absent]
    /\ apc = [p \in Calls |-> "idle"]
    /\ temp_filename = [p \in Calls |-> <<>>]
    /\ played = [p \in Calls |-> "none"]
    /\ removed = [p \in Calls |-> "none"]
    /\ printed = [p \in Calls |-> {}]
    /\ dpc = "start"
    /\ captured = Unset
    /\ user_text = Unset
    /\ target_language = ""
    /\ translated_text = Unset
    /\ steps = <<>>

SpecThread == InitThread /\ [][ThreadNext]_vars

\* A started thread is scheduled: Python threads are OS threads, and the
\* interpreter waits for the non-daemon ones before it exits.
FairSpecThread ==
    /\ InitThread
    /\ [][ThreadNext]_vars
    /\ \A i \in Invocations : WF_vars(ThreadRunFunc(i)) /\ WF_vars(ThreadCallback(i))

SpecTranslate == InitTranslate /\ [][TransNext]_vars

SpecNormalize == InitNormalize /\ [][NormNext]_vars

SpecAudio == InitAudio /\ [][AudioNext]_vars

SpecDriver == InitDriver /\ [][DriverNext]_vars

--------------------------------------------------------------------------
(* Properties.  The predicates that are not part of the program            *)
(* (MalformedResponse, BaseLetters, InUse, ...) are the vocabulary the     *)
(* properties are stated in.                                               *)

\* C1 as stated: with a callback supplied, a wrapper invocation whose thread
\* has ended has had cb invoked exactly once, with the value f returned.
C1_CallbackExactlyOnce ==
    \A i \in Invocations :
        (callback # None /\ tpc[i] \in {"done", "raised"}) =>
            /\ Len(CallbackCalls(i)) = 1
            /\ CallbackCalls(i)[1].value = func[targs[i]]

C1_Safety ==
    \A i \in Invocations :
        /\ Len(CallbackCalls(i)) <= 1
        /\ \A k \in 1..Len(CallbackCalls(i)) :
              /\ tpc[i] = "done"
              /\ func[targs[i]] \in Values
              /\ CallbackCalls(i)[k].value = func[targs[i]]
        /\ (callback # None /\ tpc[i] = "done") => Len(CallbackCalls(i)) = 1
        /\ (tpc[i] = "raised" \/ callback = None) => Len(CallbackCalls(i)) = 0

\* C1 amended: with a callback supplied, cb is invoked at most once per
\* invocation, only by that invocation's thread and only with the value f
\* returned; when f returns, cb is eventually invoked exactly once; when f
\* raises, cb is never invoked.
C1_CallbackOnceWhenFuncReturns ==
    /\ []C1_Safety
    /\ \A i \in Invocations :
          (wpc[i] # "idle" /\ callback # None /\ func[targs[i]] \in Values)
              ~> (Len(CallbackCalls(i)) = 1)

C1_Witness ==
    \E i \in Invocations :
        /\ callback # None
        /\ tpc[i] = "done"
        /\ CallbackCalls(i) = << [thread |-> i, value |-> func[targs[i]]] >>

\* C2: the wrapper returns None, and its return is enabled as soon as the
\* thread is started, whatever the wrapped function is doing (running,
\* finished, raised or never finishing).
C2_WrapperReturnsWithoutWaiting ==
    \A i \in Invocations :
        /\ wpc[i] = "spawned" => ENABLED WrapperReturn(i)
        /\ wpc[i] = "returned" => wret[i] = None

C2_Witness ==
    \E i \in Invocations :
        /\ wpc[i] = "returned"
        /\ wret[i] = None
        /\ tpc[i] = "start"

\* the `translations` member of a JSON object that has one
TranslationsOf(resp) == resp.data.f.translations

IsJsonObject(resp) == resp.kind = "json" /\ resp.data.t = "dict"
HasTranslationsList(resp) ==
    /\ IsJsonObject(resp)
    /\ "translations" \in DOMAIN resp.data.f
    /\ TranslationsOf(resp).t = "list"
FirstCandidateHasText(resp) ==
    /\ HasTranslationsList(resp)
    /\ Len(TranslationsOf(resp).items) > 0
    /\ TranslationsOf(resp).items[1].t = "dict"
    /\ "text" \in DOMAIN TranslationsOf(resp).items[1].f

\* the malformed or empty responses: not JSON, not an object, no
\* 'translations' key, an empty list, a first candidate without 'text'
MalformedResponse(resp) ==
    \/ resp.kind = "not_json"
    \/ resp.kind = "json" /\ ~IsJsonObject(resp)
    \/ IsJsonObject(resp) /\ "translations" \notin DOMAIN resp.data.f
    \/ HasTranslationsList(resp) /\ ~FirstCandidateHasText(resp)

ReturnedString == ~trRaised /\ trResult.t = "str"

\* C3 as stated: every malformed or empty response makes translate_text
\* return, without raising, a string that begins with the one fixed marker
\* "[Translation Error: ".
C3_MalformedGivesTheFixedMarker ==
    (trPc = "done" /\ MalformedResponse(response)) =>
        /\ ReturnedString
        /\ StartsWith(trResult.s, TranslationErrorMarker)

\* C3 amended: every malformed or empty response makes translate_text
\* return, without raising, a string that begins with one of two markers:
\* "[Translation Error: " when the shape test fails (no 'translations'
\* member, or an empty list) or the body is not JSON under a requests whose
\* JSONDecodeError is a RequestException, and "[Error: " when reading the
\* response raises any other exception (a first candidate without 'text', a
\* JSON null or number, a body that is not JSON under an older requests).
C3_MalformedGivesOneOfTwoMarkers ==
    (trPc = "done" /\ MalformedResponse(response)) =>
        /\ ReturnedString
        /\ \/ StartsWith(trResult.s, TranslationErrorMarker)
           \/ StartsWith(trResult.s, ErrorMarker)
        /\ (response.kind = "not_json") =>
              (StartsWith(trResult.s, TranslationErrorMarker)
                   <=> jsonErrorIsRequestException)
        /\ (IsJsonObject(response) /\ "translations" \notin DOMAIN response.data.f)
              => trResult.s = UnexpectedFormat
        /\ (HasTranslationsList(response) /\ TranslationsOf(response).items = <<>>)
              => trResult.s = UnexpectedFormat
        /\ (HasTranslationsList(response) /\ TranslationsOf(response).items # <<>>)
              => StartsWith(trResult.s, ErrorMarker)

C3_Witness ==
    /\ trPc = "done"
    /\ HasTranslationsList(response)
    /\ TranslationsOf(response).items # <<>>
    /\ ~FirstCandidateHasText(response)
    /\ trResult = PyStr("[Error: 'text']")

\* C4: when the request fails (transport failure, timeout, or the status
\* error raised by raise_for_status), translate_text does not raise and
\* returns a string that begins with "[Translation Error: " and contains the
\* exception's detail.
C4_NetworkFailureGivesMarkerAndDetail ==
    (trPc = "done" /\ response \in NetworkFailures) =>
        /\ ReturnedString
        /\ StartsWith(trResult.s, TranslationErrorMarker)
        /\ Contains(trResult.s, response.msg)

C4_Witness ==
    /\ trPc = "done"
    /\ response.kind = "post_raises"
    /\ response.cls = "Timeout"
    /\ trResult = PyStr("[Translation Error: Read timed out. (read timeout=10)]")

\* C10: a call with a configured credential makes exactly one request, and
\* on a success whose 'translations' list is non-empty (its first candidate
\* carrying 'text') returns the first candidate's text, whatever follows it;
\* a call with an empty credential makes no request and returns a string
\* that begins with the error marker.
C10_OneRequestFirstCandidate ==
    /\ trPc = "request" => (trRequests = 0 /\ params.auth_key = API_KEY /\ API_KEY # "")
    /\ trPc = "done" =>
        /\ API_KEY # "" => trRequests = 1
        /\ API_KEY = "" =>
              /\ trRequests = 0
              /\ response = NoResponse
              /\ ReturnedString
              /\ StartsWith(trResult.s, TranslationErrorMarker)
        /\ (API_KEY # "" /\ FirstCandidateHasText(response)) =>
              /\ ~trRaised
              /\ trResult = TranslationsOf(response).items[1].f.text

C10_Witness ==
    /\ trPc = "done"
    /\ trRequests = 1
    /\ FirstCandidateHasText(response)
    /\ Len(TranslationsOf(response).items) = 2
    /\ trResult = PyStr("Hola")

\* C5: normalize_text is idempotent: normalizing its output gives the
\* output again, for every input string.
C5_NormalizeIdempotent ==
    normalizedTwice # Unset => normalizedTwice = normalized

PlainLetters ==
    { "a", "A", "c", "C", "e", "E", "f", "m", "M", "t", "T",
      "e_acute", "E_acute", "comb_acute" }

\* C6: two strings that differ only in letter case and in diacritical marks
\* normalize to the same value, which for ordinary letters is the
\* lowercase, unaccented string; None is returned unchanged.
C6_CaseAndAccentInsensitive ==
    /\ (normalized # Unset /\ text = PyNone) => normalized = PyNone
    /\ (normalized # Unset /\ normalizedVariant # Unset) =>
          normalized = normalizedVariant
    /\ (normalized # Unset /\ text # PyNone
            /\ \A i \in DOMAIN text.s : text.s[i] \in PlainLetters) =>
          normalized = PyStr(BaseLetters(text.s))

\* C7: on every exit path of play_audio the finally clause has run: a file
\* the call wrote that is still at its path when the call returns has had
\* its deletion attempted, a deletion is skipped only when nothing was at
\* the path, and a failed deletion is printed, not raised.
C7_CleanupOnEveryExit ==
    \A p \in Calls :
        /\ apc[p] = "returned" =>
              /\ removed[p] # "none"
              /\ (files[temp_filename[p]] = p) => removed[p] = "failed"
              /\ removed[p] = "failed" => "Error removing temp file" \in printed[p]
        /\ apc[p] = "raised" => temp_filename[p] = <<>>
        /\ removed[p] = "failed" => apc[p] = "returned"

C7_Witness ==
    \E p \in Calls :
        /\ apc[p] = "returned"
        /\ "Error generating or playing audio" \in printed[p]
        /\ removed[p] = "own"
        /\ files[temp_filename[p]] = Absent

InUse(p) == apc[p] \notin {"idle", "raised", "returned"} /\ temp_filename[p] # <<>>

\* C8: two calls that overlap never hold the same file name, and no call
\* plays or deletes a file that another call wrote.
C8_ExclusiveUniqueFile ==
    \A p, q \in Calls :
        /\ (p # q /\ InUse(p) /\ InUse(q)) => temp_filename[p] # temp_filename[q]
        /\ played[p] # "other"
        /\ removed[p] # "other"

\* C9: whatever the collaborators do, no exception escapes the driver: it
\* runs its four steps in order and completes, with the sample text in
\* place of an empty or absent capture.
C9_NoErrorIsFatal ==
    /\ dpc # "crashed"
    /\ dpc = "complete" => steps = <<1, 2, 3, 4>>
    /\ (dpc \notin {"start", "crashed"} /\ Falsy(captured)) =>
          user_text = PyStr(SampleText)

==========================================================================
